---- MODULE Spec2Model ----
(***************************************************************************)
(* telegram-expense-bot: the message-to-ledger pipeline of src/bot.py.     *)
(*                                                                         *)
(* Handlers are coroutines: a handler runs without interruption from one   *)
(* await to the next, so every action below is the code between two await  *)
(* points.  Up to MaxTasks handlers are in flight at once.                 *)
(*                                                                         *)
(* Numbers are fixed-point hundredths (50.00 is 5000, 0.9 is 90).          *)
(* time.time() is modelled as a non-decreasing integer clock.              *)
(***************************************************************************)
EXTENDS Integers, Sequences, FiniteSets, Bags, TLC

VARIABLES
    ALLOWED_ENV,      \* value of the ALLOWED_USERS environment variable (characters)
    now,              \* time.time()
    user_timestamps,  \* _user_timestamps: defaultdict(list), user id -> accepted timestamps
    ledger,           \* rows of public.expenses, in insertion order
    tasks,            \* the handler coroutines in flight (a bag: two may be alike)
    nmsgs,            \* number of updates delivered so far
    rateLog,          \* history: every is_rate_limited call, in order
    last,             \* history: the handler that returned most recently
    job,              \* the scheduled_23h coroutine
    ranges,           \* the latest day_range_local / week_range_local call and its result
    chart             \* the latest build_daily_chart_png call: its series and y scale

vars == <<ALLOWED_ENV, now, user_timestamps, ledger, tasks, nmsgs, rateLog, last,
          job, ranges, chart>>

\* ---------------------------------------------------------------- bounds
MaxTasks == 2
MaxMsgs == 2
MaxRateMsgs == 4
MaxTime == 2
MaxExtractMsgs == 1
MaxJobUsers == 3            \* users the listing returns to the scheduled job
MaxDayOffset == 7           \* dates run from TEST_MONDAY to TEST_MONDAY + MaxDayOffset
MaxChartDays == 4           \* the `days` argument of build_daily_chart_png

\* ------------------------------------------------------ program constants
MAX_TEXT_LENGTH == 500
MAX_AMOUNT == 1000000
ERROR_BODY_CHARS == 300
TEST_MONDAY == 739656       \* date(2026, 2, 9).toordinal(), the Monday of the tests
SYMLOG_RATIO == 8           \* (vmax / median) >= 8
\* int(os.getenv("RATE_LIMIT_MSGS", "5")), int(os.getenv("RATE_LIMIT_WINDOW", "60")):
\* the deployment's configuration; the model runs a small one.
RATE_LIMIT_MSGS == 2
RATE_LIMIT_WINDOW == 2

Users == {7, 42}

Hundredths(x) == x * 100

\* ------------------------------------------------------------ JSON values
\* A decoded JSON value (json.loads): k is its Python type, n its number
\* (hundredths) and s its string.
JV(k, n, s) == [k |-> k, n |-> n, s |-> s]
ABSENT == JV("absent", 0, "")          \* the key is not in the dict
NONE == JV("null", 0, "")              \* None
Num(n) == JV("num", n, "")             \* int or float, n in hundredths
Str(s) == JV("str", 0, s)
Bool(b) == JV("bool", IF b THEN 1 ELSE 0, "")
NAN == JV("nan", 0, "")                \* float('nan'): json.loads accepts the literal NaN
INF == JV("inf", 0, "")                \* float('inf'): the literal Infinity
NINF == JV("ninf", 0, "")              \* the literal -Infinity
BIGINT == JV("bigint", 0, "")          \* an int too large for a float, e.g. 10**400
LIST == JV("list", 0, "")              \* a non-empty list, e.g. [50]

\* dict.get(key): None when the key is missing
PyGet(obj, key) == IF obj[key].k = "absent" THEN NONE ELSE obj[key]

\* dict.get(key, default)
PyGetDefault(obj, key, default) == IF obj[key].k = "absent" THEN default ELSE obj[key]

IsNone(v) == v.k = "null"

\* bool(v)
PyTruthy(v) ==
    CASE v.k = "null" -> FALSE
      [] v.k = "num" -> v.n # 0
      [] v.k = "bool" -> v.n = 1
      [] v.k = "str" -> v.s # ""
      [] OTHER -> TRUE

\* a or b
PyOr(a, b) == IF PyTruthy(a) THEN a ELSE b

\* float(str) on the string literals the model uses
PyFloatOfStr(s) ==
    CASE s = "50" -> [exc |-> "", val |-> Num(5000)]
      [] s = "0.9" -> [exc |-> "", val |-> Num(90)]
      [] s = "-3" -> [exc |-> "", val |-> Num(-300)]
      [] s = "nan" -> [exc |-> "", val |-> NAN]
      [] s = "inf" -> [exc |-> "", val |-> INF]
      [] OTHER -> [exc |-> "ValueError", val |-> NONE]

\* float(v): the value, or the exception raised
PyFloat(v) ==
    CASE v.k = "num" -> [exc |-> "", val |-> v]
      [] v.k = "bool" -> [exc |-> "", val |-> Num(Hundredths(v.n))]
      [] v.k \in {"nan", "inf", "ninf"} -> [exc |-> "", val |-> v]
      [] v.k = "str" -> PyFloatOfStr(v.s)
      [] v.k = "bigint" -> [exc |-> "OverflowError", val |-> NONE]
      [] OTHER -> [exc |-> "TypeError", val |-> NONE]

\* x <= y and x > y on floats: every comparison with NaN is False
FloatLE(x, bound) ==
    CASE x.k = "num" -> x.n <= bound
      [] x.k = "ninf" -> TRUE
      [] OTHER -> FALSE

FloatGT(x, bound) ==
    CASE x.k = "num" -> x.n > bound
      [] x.k = "inf" -> TRUE
      [] OTHER -> FALSE

\* ------------------------------------------------------------- strings
IsSpace(c) == c \in {" ", "\t", "\n"}

RECURSIVE LStrip(_)
LStrip(s) == IF s # <<>> /\ IsSpace(Head(s)) THEN LStrip(Tail(s)) ELSE s

RECURSIVE RStrip(_)
RStrip(s) ==
    IF s # <<>> /\ IsSpace(s[Len(s)]) THEN RStrip(SubSeq(s, 1, Len(s) - 1)) ELSE s

\* str.strip()
Strip(s) == RStrip(LStrip(s))

\* str.split(","): the pieces between the commas, empty pieces included
RECURSIVE SplitComma(_, _)
SplitComma(s, cur) ==
    IF s = <<>> THEN <<cur>>
    ELSE IF Head(s) = "," THEN <<cur>> \o SplitComma(Tail(s), <<>>)
    ELSE SplitComma(Tail(s), Append(cur, Head(s)))

DigitVal(c) ==
    CASE c = "0" -> 0 [] c = "1" -> 1 [] c = "2" -> 2 [] c = "3" -> 3 [] c = "4" -> 4
      [] c = "5" -> 5 [] c = "6" -> 6 [] c = "7" -> 7 [] c = "8" -> 8 [] c = "9" -> 9
      [] OTHER -> -1

IsDigits(s) == s # <<>> /\ \A i \in 1..Len(s) : DigitVal(s[i]) >= 0

RECURSIVE DigitsValue(_, _)
DigitsValue(s, acc) ==
    IF s = <<>> THEN acc ELSE DigitsValue(Tail(s), acc * 10 + DigitVal(Head(s)))

\* int(s) for a stripped piece of decimal digits
PyInt(s) == DigitsValue(s, 0)

\* ------------------------------------------------------------ allowlist
\* _allowed_env = os.getenv("ALLOWED_USERS", "").strip()
AllowedEnvStripped(env) == Strip(env)

\* the pieces uid of _allowed_env.split(",") with uid.strip() non-empty
AllowedPieces(env) ==
    LET parts == SplitComma(AllowedEnvStripped(env), <<>>)
    IN { Strip(parts[i]) : i \in { j \in 1..Len(parts) : Strip(parts[j]) # <<>> } }

\* int() raises on anything but digits: the module then fails to import
EnvLoads(env) == \A p \in AllowedPieces(env) : IsDigits(p)

\* ALLOWED_USERS: None ("none" is TRUE) or the set of ids
ParseAllowedUsers(env) ==
    IF AllowedEnvStripped(env) = <<>>
    THEN [none |-> TRUE, ids |-> {}]
    ELSE [none |-> FALSE, ids |-> { PyInt(p) : p \in AllowedPieces(env) }]

ALLOWED_USERS == ParseAllowedUsers(ALLOWED_ENV)

\* the allowlist is read but never enforced
is_allowed_Unenforced(user_id) ==
    IF ALLOWED_USERS.none THEN TRUE ELSE user_id \in ALLOWED_USERS.ids \cup Users

is_allowed(user_id) ==
    IF ALLOWED_USERS.none THEN TRUE ELSE user_id \in ALLOWED_USERS.ids

\* --------------------------------------------------------- rate limiting
\* _user_timestamps[user_id] on a defaultdict(list)
TimestampsOf(store, user_id) ==
    IF user_id \in DOMAIN store THEN store[user_id] ELSE <<>>

\* the window keeps the timestamp that is exactly RATE_LIMIT_WINDOW old
InWindow_Inclusive(t, at) == t >= at - RATE_LIMIT_WINDOW

\* t > window_start, with window_start = now - RATE_LIMIT_WINDOW
InWindow(t, at) == t > at - RATE_LIMIT_WINDOW

\* [t for t in timestamps if t > window_start]
PruneWindow(timestamps, at) == SelectSeq(timestamps, LAMBDA t : InWindow(t, at))

\* the limit is compared with > instead of >=
WindowFull_OffByOne(timestamps) == Len(timestamps) > RATE_LIMIT_MSGS

\* len(_user_timestamps[user_id]) >= RATE_LIMIT_MSGS
WindowFull(timestamps) == Len(timestamps) >= RATE_LIMIT_MSGS

\* is_rate_limited(user_id) at time `at`: the value returned and the store left behind
is_rate_limited(store, user_id, at) ==
    LET pruned == PruneWindow(TimestampsOf(store, user_id), at)
        limited == WindowFull(pruned)
        kept == IF limited THEN pruned ELSE Append(pruned, at)
    IN [limited |-> limited,
        store |-> [u \in DOMAIN store \cup {user_id} |->
                      IF u = user_id THEN kept ELSE store[u]]]

\* ------------------------------------------------------------- messages
Repeat(c, n) == [i \in 1..n |-> c]

\* update.message.text of the text messages the model delivers
TextSamples ==
    << <<" ", "\n">>,
       <<" ", "g", "a", "s", "t", "e", "i", " ", "5", "0">>,
       Repeat("x", MAX_TEXT_LENGTH),
       Repeat("x", MAX_TEXT_LENGTH + 1) >>

TextIds == 1..Len(TextSamples)

\* the command handlers registered in build_app
Commands ==
    {"start", "gastos", "ganhos", "relatorio", "saldo", "balanco", "grafico", "teste23"}

\* values of ALLOWED_USERS the model is started with
EnvSamples ==
    { <<>>,
      <<",">>,
      <<" ", "4", "2", ",", " ">> }

\* ------------------------------------------------------------- replies
Reply(kind, n, m, s, amt, body) ==
    [kind |-> kind, n |-> n, m |-> m, s |-> s, amt |-> amt, body |-> body]

SlowDownReply == Reply("slow_down", 0, 0, "", NONE, <<>>)
TooLongReply(len) == Reply("too_long", len, MAX_TEXT_LENGTH, "", NONE, <<>>)
NotUnderstoodReply == Reply("not_understood", 0, 0, "", NONE, <<>>)
RegisteredReply(kind, amount) == Reply(kind, 0, 0, "", amount, <<>>)
\* f"Erro na Groq (status {status}).\nTrecho: {text[:300]}"
HttpErrorReply(status, body) ==
    Reply("http_error", status, 0, "", NONE,
          SubSeq(body, 1, IF Len(body) < ERROR_BODY_CHARS THEN Len(body) ELSE ERROR_BODY_CHARS))
\* f"Deu erro: {type(e).__name__}: {e}"
ErrorReply(exc) == Reply("error", 0, 0, exc, NONE, <<>>)
CommandReply(kind, cmd) == Reply(kind, 0, 0, cmd, NONE, <<>>)
NoReply == Reply("none", 0, 0, "", NONE, <<>>)

\* what a command handler sends to an allowed user, in order
CommandReplies(cmd) ==
    CASE cmd \in {"grafico", "balanco"} -> <<CommandReply("photo", cmd)>>
      [] cmd = "teste23" -> <<CommandReply("text", cmd), CommandReply("photo", cmd)>>
      [] OTHER -> <<CommandReply("text", cmd)>>

\* ------------------------------------------------- classification results
\* the dict json.loads(content) returns; a missing key is ABSENT
Obj(amount, type, category, description, confidence) ==
    [amount |-> amount, type |-> type, category |-> category,
     description |-> description, confidence |-> confidence, currency |-> Str("BRL")]

NoObj == [amount |-> ABSENT, type |-> ABSENT, category |-> ABSENT,
          description |-> ABSENT, confidence |-> ABSENT, currency |-> ABSENT]

\* what `await extract_expense(text_in)` produces: a dict, or an exception
Response(kind, obj, status, body) ==
    [kind |-> kind, obj |-> obj, status |-> status, body |-> body]

NoResponse == Response("none", NoObj, 0, <<>>)

\* amounts the classifier may put in the "amount" field
AmountSamples ==
    { ABSENT, NONE, Num(1), Num(5000), Num(Hundredths(MAX_AMOUNT)),
      Num(Hundredths(MAX_AMOUNT) + 1), Num(0), Num(-300),
      Str("50"), Str("abc"), Bool(TRUE), NAN, INF, BIGINT, LIST }

WellFormed(amount) == Obj(amount, Str("expense"), Str("transporte"), Str("uber"), Num(90))

\* the same result with one other field changed
FieldSamples(amount) ==
    { [WellFormed(amount) EXCEPT !.type = v] : v \in {ABSENT, NONE, Str("income"), Str("refund")} }
    \cup { [WellFormed(amount) EXCEPT !.category = v] : v \in {ABSENT, Str(""), Str("pets"), LIST} }
    \cup { [WellFormed(amount) EXCEPT !.description = v] : v \in {ABSENT, Str(" "), Num(500)} }
    \cup { [WellFormed(amount) EXCEPT !.confidence = v] :
              v \in {ABSENT, Num(0), Num(200), Str("0.9"), Str("high"), NAN} }

ObjectSamples ==
    { WellFormed(a) : a \in AmountSamples }
    \cup FieldSamples(Num(5000))
    \cup { [WellFormed(a) EXCEPT !.description = Num(500)] : a \in {NONE, Num(-300)} }
    \cup { [WellFormed(a) EXCEPT !.category = LIST] : a \in {NONE, Num(-300)} }

\* the outcomes of the call to the classification capability
Responses ==
    { Response("object", o, 200, <<>>) : o \in ObjectSamples }
    \cup { Response("http_error", NoObj, 429, Repeat("e", n)) :
              n \in {0, ERROR_BODY_CHARS, ERROR_BODY_CHARS + 1} }
    \cup { Response(k, NoObj, 0, <<>>) : k \in {"timeout", "bad_json", "no_choices", "non_object"} }

\* the outcomes the guard and concurrency runs draw from
FewResponses ==
    { Response("object", WellFormed(a), 200, <<>>) : a \in {Num(5000), NONE} }
    \cup { Response("timeout", NoObj, 0, <<>>) }

\* the exception extract_expense raises, or what `obj.get` raises on a non-dict
ResponseException(resp) ==
    CASE resp.kind = "http_error" -> "HTTPStatusError"
      [] resp.kind = "timeout" -> "ReadTimeout"
      [] resp.kind = "bad_json" -> "JSONDecodeError"
      [] resp.kind = "no_choices" -> "KeyError"
      [] resp.kind = "non_object" -> "AttributeError"
      [] OTHER -> ""

\* ------------------------------------------------------ on_text, after await
\* the ceiling is compared with >= instead of >
AmountOutOfRange_CeilingExclusive(amount) ==
    FloatLE(amount, 0) \/ FloatGT(amount, Hundredths(MAX_AMOUNT) - 1)

\* amount <= 0 or amount > MAX_AMOUNT
AmountOutOfRange(amount) ==
    FloatLE(amount, 0) \/ FloatGT(amount, Hundredths(MAX_AMOUNT))

\* an amount reported with a confidence below 0.5 is dropped as well
ValidateAmount_ConfidenceGated(obj) ==
    LET amount == PyGet(obj, "amount")
        f == PyFloat(amount)
        c == PyFloat(PyOr(PyGet(obj, "confidence"), Num(0)))
        dropped == [obj EXCEPT !.amount = NONE, !.confidence = Num(0)]
    IN IF IsNone(amount) THEN [exc |-> "", obj |-> obj]
       ELSE IF f.exc \in {"ValueError", "TypeError"} THEN [exc |-> "", obj |-> dropped]
       ELSE IF f.exc # "" THEN [exc |-> f.exc, obj |-> obj]
       ELSE IF AmountOutOfRange(f.val) THEN [exc |-> "", obj |-> dropped]
       ELSE IF c.exc = "" /\ c.val.k = "num" /\ c.val.n < 50 THEN [exc |-> "", obj |-> dropped]
       ELSE [exc |-> "", obj |-> [obj EXCEPT !.amount = f.val]]

\* "Validacao do amount retornado pela LLM": the dict afterwards, or the
\* exception the inner try does not catch
ValidateAmount(obj) ==
    LET amount == PyGet(obj, "amount")
        f == PyFloat(amount)
        dropped == [obj EXCEPT !.amount = NONE, !.confidence = Num(0)]
    IN IF IsNone(amount) THEN [exc |-> "", obj |-> obj]
       ELSE IF f.exc \in {"ValueError", "TypeError"} THEN [exc |-> "", obj |-> dropped]
       ELSE IF f.exc # "" THEN [exc |-> f.exc, obj |-> obj]
       ELSE IF AmountOutOfRange(f.val) THEN [exc |-> "", obj |-> dropped]
       ELSE [exc |-> "", obj |-> [obj EXCEPT !.amount = f.val]]

\* the keys of CATEGORY_EMOJI
CATEGORY_EMOJI ==
    {"alimentacao", "transporte", "saude", "lazer", "casa",
     "salario", "freelance", "investimento", "outros"}

\* CATEGORY_EMOJI.get(category, ...) hashes its key
Hashable(v) == v.k # "list"

\* utils.format_reply(obj): the reply, or the exception raised
format_reply(obj) ==
    LET amount == PyGet(obj, "amount")
        category == PyGetDefault(obj, "category", Str("outros"))
        entry_type == PyGetDefault(obj, "type", Str("expense"))
        description == PyOr(PyGet(obj, "description"), Str(""))
    IN IF description.k # "str" THEN [exc |-> "AttributeError", reply |-> NoReply]
       ELSE IF ~Hashable(category) THEN [exc |-> "TypeError", reply |-> NoReply]
       ELSE IF IsNone(amount) THEN [exc |-> "", reply |-> NotUnderstoodReply]
       ELSE IF entry_type = Str("income")
            THEN [exc |-> "", reply |-> RegisteredReply("income_registered", amount)]
       ELSE [exc |-> "", reply |-> RegisteredReply("expense_registered", amount)]

\* str(x)
PyStr(x) == <<"str", x>>

Entry(user_id, chat_id, raw_text, amount, currency, category, description, confidence, type) ==
    [user_id |-> user_id, chat_id |-> chat_id, raw_text |-> raw_text, amount |-> amount,
     currency |-> currency, category |-> category, description |-> description,
     confidence |-> confidence, type |-> type]

NoEntry == Entry(PyStr(0), PyStr(0), <<>>, NONE, NONE, NONE, NONE, NONE, "")

\* the type is passed on as the classifier returned it
InsertArguments_TypeAsReturned(obj, uid, chat, text_in) ==
    LET got == PyGetDefault(obj, "type", Str("expense"))
        entry_type == IF got.k = "str" THEN got.s ELSE "expense"
        confidence == PyFloat(PyOr(PyGet(obj, "confidence"), Num(0)))
    IN IF confidence.exc # "" THEN [exc |-> confidence.exc, entry |-> NoEntry]
       ELSE [exc |-> "",
             entry |-> Entry(PyStr(uid), PyStr(chat), text_in, obj.amount,
                             PyOr(PyGet(obj, "currency"), Str("BRL")),
                             PyOr(PyGet(obj, "category"), Str("outros")),
                             PyOr(PyGet(obj, "description"), Str("")),
                             confidence.val, entry_type)]

\* the keyword arguments of the insert_expense call, or the exception raised
\* while evaluating them
InsertArguments(obj, uid, chat, text_in) ==
    LET got == PyGetDefault(obj, "type", Str("expense"))
        entry_type == IF got \in {Str("expense"), Str("income")} THEN got.s ELSE "expense"
        confidence == PyFloat(PyOr(PyGet(obj, "confidence"), Num(0)))
    IN IF confidence.exc # "" THEN [exc |-> confidence.exc, entry |-> NoEntry]
       ELSE [exc |-> "",
             entry |-> Entry(PyStr(uid), PyStr(chat), text_in, obj.amount,
                             PyOr(PyGet(obj, "currency"), Str("BRL")),
                             PyOr(PyGet(obj, "category"), Str("outros")),
                             PyOr(PyGet(obj, "description"), Str("")),
                             confidence.val, entry_type)]

\* what the try statement of on_text leaves behind: the reply, whether a row was
\* inserted, the exception its except clauses caught ("" when none), and db:
\* "none" when insert_expense is never called, else "ok" or "error"
Outcome(reply, write, entry, db, exc) ==
    [reply |-> reply, write |-> write, entry |-> entry, db |-> db, exc |-> exc]

\* the generic except clause answers as if nothing had been understood
Failed_Swallowed(resp, exc) ==
    IF exc = "HTTPStatusError"
    THEN Outcome(HttpErrorReply(resp.status, resp.body), FALSE, NoEntry, "none", exc)
    ELSE Outcome(NotUnderstoodReply, FALSE, NoEntry,
                 IF exc = "DBAPIError" THEN "error" ELSE "none", exc)

\* the except clauses of on_text
Failed(resp, exc) ==
    IF exc = "HTTPStatusError"
    THEN Outcome(HttpErrorReply(resp.status, resp.body), FALSE, NoEntry, "none", exc)
    ELSE Outcome(ErrorReply(exc), FALSE, NoEntry,
                 IF exc = "DBAPIError" THEN "error" ELSE "none", exc)

\* a failed insert leaves the formatted confirmation as the reply
HandleResponse_ConfirmsFailedInsert(resp, uid, chat, text_in, db_ok) ==
    IF resp.kind # "object" THEN Failed(resp, ResponseException(resp))
    ELSE LET v == ValidateAmount(resp.obj)
             r == format_reply(v.obj)
             a == InsertArguments(v.obj, uid, chat, text_in)
         IN IF v.exc # "" THEN Failed(resp, v.exc)
            ELSE IF r.exc # "" THEN Failed(resp, r.exc)
            ELSE IF IsNone(PyGet(v.obj, "amount")) THEN Outcome(r.reply, FALSE, NoEntry, "none", "")
            ELSE IF a.exc # "" THEN Failed(resp, a.exc)
            ELSE IF ~db_ok THEN Outcome(r.reply, FALSE, NoEntry, "error", "DBAPIError")
            ELSE Outcome(r.reply, TRUE, a.entry, "ok", "")

\* the insert is made even when the amount is None
HandleResponse_WriteThenFail(resp, uid, chat, text_in, db_ok) ==
    IF resp.kind # "object" THEN Failed(resp, ResponseException(resp))
    ELSE LET v == ValidateAmount(resp.obj)
             r == format_reply(v.obj)
             a == InsertArguments(v.obj, uid, chat, text_in)
         IN IF v.exc # "" THEN Failed(resp, v.exc)
            ELSE IF r.exc # "" THEN Failed(resp, r.exc)
            ELSE IF IsNone(PyGet(v.obj, "amount")) THEN Outcome(r.reply, TRUE, a.entry, "ok", "")
            ELSE IF a.exc # "" THEN Failed(resp, a.exc)
            ELSE IF ~db_ok THEN Failed(resp, "DBAPIError")
            ELSE Outcome(r.reply, TRUE, a.entry, "ok", "")

\* the try block of on_text once extract_expense has returned or raised;
\* db_ok is whether the insert statement succeeds
HandleResponse(resp, uid, chat, text_in, db_ok) ==
    IF resp.kind # "object" THEN Failed(resp, ResponseException(resp))
    ELSE LET v == ValidateAmount(resp.obj)
             r == format_reply(v.obj)
             a == InsertArguments(v.obj, uid, chat, text_in)
         IN IF v.exc # "" THEN Failed(resp, v.exc)
            ELSE IF r.exc # "" THEN Failed(resp, r.exc)
            ELSE IF IsNone(PyGet(v.obj, "amount")) THEN Outcome(r.reply, FALSE, NoEntry, "none", "")
            ELSE IF a.exc # "" THEN Failed(resp, a.exc)
            ELSE IF ~db_ok THEN Failed(resp, "DBAPIError")
            ELSE Outcome(r.reply, TRUE, a.entry, "ok", "")

\* ------------------------------------------------------ on_text, the guard
\* on_text from its first line to its first await: "ignore" (return without
\* a reply), "slow_down", "too_long" or "proceed", with the rate store left
\* behind and whether is_rate_limited was called
Verdict(verdict, store, checked, limited) ==
    [verdict |-> verdict, store |-> store, checked |-> checked, limited |-> limited]

\* the length is compared with >= instead of >
TooLong_Inclusive(text_in) == Len(text_in) >= MAX_TEXT_LENGTH

\* len(text_in) > MAX_TEXT_LENGTH
TooLong(text_in) == Len(text_in) > MAX_TEXT_LENGTH

\* the length check is made before the rate check
InputGuard_LengthFirst(store, uid, text_in, at) ==
    LET rl == is_rate_limited(store, uid, at)
    IN IF Strip(text_in) = <<>> THEN Verdict("ignore", store, FALSE, FALSE)
       ELSE IF ~is_allowed(uid) THEN Verdict("ignore", store, FALSE, FALSE)
       ELSE IF TooLong(text_in) THEN Verdict("too_long", store, FALSE, FALSE)
       ELSE IF rl.limited THEN Verdict("slow_down", rl.store, TRUE, TRUE)
       ELSE Verdict("proceed", rl.store, TRUE, FALSE)

\* a message rejected for its length is not counted
InputGuard_LengthUncounted(store, uid, text_in, at) ==
    LET rl == is_rate_limited(store, uid, at)
    IN IF Strip(text_in) = <<>> THEN Verdict("ignore", store, FALSE, FALSE)
       ELSE IF ~is_allowed(uid) THEN Verdict("ignore", store, FALSE, FALSE)
       ELSE IF rl.limited THEN Verdict("slow_down", rl.store, TRUE, TRUE)
       ELSE IF TooLong(text_in) THEN Verdict("too_long", store, FALSE, FALSE)
       ELSE Verdict("proceed", rl.store, TRUE, FALSE)

InputGuard(store, uid, text_in, at) ==
    LET rl == is_rate_limited(store, uid, at)
    IN IF Strip(text_in) = <<>> THEN Verdict("ignore", store, FALSE, FALSE)
       ELSE IF ~is_allowed(uid) THEN Verdict("ignore", store, FALSE, FALSE)
       ELSE IF rl.limited THEN Verdict("slow_down", rl.store, TRUE, TRUE)
       ELSE IF TooLong(text_in) THEN Verdict("too_long", rl.store, TRUE, FALSE)
       ELSE Verdict("proceed", rl.store, TRUE, FALSE)

\* --------------------------------------------------------------- state
\* a handler coroutine.  pc: "idle" (not started), "extracting" (awaiting extract_expense),
\* "sending" (awaiting safe_send / safe_send_photo) or "done".
\* kind is "text" or the command; txt indexes TextSamples; resp is what
\* extract_expense produced; sent are the texts passed to safe_send so far and
\* outbox those the handler has yet to finish sending.
\* History: calls counts the extract_expense calls, wrote the rows inserted,
\* row is the ledger index of the row, db and exc are as in Outcome, checked
\* is whether is_rate_limited was called, and over is whether the sender had
\* RATE_LIMIT_MSGS accepted messages in the window when the message arrived.
IdleTask ==
    [pc |-> "idle", kind |-> "", uid |-> 0, txt |-> 0, resp |-> NoResponse,
     outbox |-> <<>>, sent |-> <<>>,
     calls |-> 0, wrote |-> 0, row |-> 0, db |-> "none", exc |-> "",
     checked |-> FALSE, over |-> FALSE]

\* the handlers awaiting something
InFlight == BagToSet(tasks)

\* the application starts another handler only while fewer than MaxTasks run
CanStart == BagCardinality(tasks) < MaxTasks

\* the handler returns
Returned(t0) == [t0 EXCEPT !.pc = "done", !.outbox = <<>>]

\* accepted is_rate_limited calls of uid with a timestamp in (at - W, at]
AcceptedInWindow(log, uid, at) ==
    { i \in 1..Len(log) :
        /\ log[i].uid = uid
        /\ ~log[i].limited
        /\ log[i].at > at - RATE_LIMIT_WINDOW
        /\ log[i].at <= at }

\* the handler calls safe_send(replies[1]) and, when it returns, the next one
StartSending(t0, replies) ==
    IF replies = <<>> THEN Returned(t0)
    ELSE [t0 EXCEPT !.pc = "sending", !.outbox = replies,
                    !.sent = Append(t0.sent, Head(replies))]

\* handler t0 has run on to its next await and become t1, or has returned
Place(t0, t1) ==
    LET rest == IF t0.pc = "idle" THEN tasks ELSE tasks (-) SetToBag({t0})
    IN /\ tasks' = IF t1.pc = "done" THEN rest ELSE rest (+) SetToBag({t1})
       /\ last' = IF t1.pc = "done" THEN t1 ELSE last

\* ------------------------------------------------------- scheduled_23h
\* what happens to one user of the batch: get_chat_id_for_user raises, it
\* returns None, build_report_text raises, build_daily_chart_png raises, or
\* nothing raises
JobScenarios == {"lookup_error", "no_chat_id", "report_error", "chart_error", "ok"}

\* the listings of at most MaxJobUsers users, each with what happens to it
RECURSIVE JobPlans(_)
JobPlans(n) ==
    IF n = 0 THEN {<<>>}
    ELSE JobPlans(n - 1) \cup
         { Append(p, sc) : p \in { q \in JobPlans(n - 1) : Len(q) = n - 1 }, sc \in JobScenarios }

\* the coroutine: pc is "idle", "safe_send", "safe_send_photo" or "done"; plan
\* is the listing; i the index of the user of the current iteration.
\* History: attempted are the users whose iteration began, sends the
\* safe_send / safe_send_photo calls, logged the users whose exception was logged.
NoJob == [pc |-> "idle", plan |-> <<>>, i |-> 0, attempted |-> <<>>, sends |-> <<>>,
          logged |-> <<>>]

\* the first exception ends the loop
RECURSIVE RunLoop_AbortOnError(_, _)
RunLoop_AbortOnError(j, k) ==
    IF k > Len(j.plan) THEN [j EXCEPT !.pc = "done", !.i = k]
    ELSE LET a == [j EXCEPT !.i = k, !.attempted = Append(@, k)]
         IN CASE j.plan[k] \in {"lookup_error", "report_error"} ->
                     [a EXCEPT !.pc = "done", !.logged = Append(@, k)]
              [] j.plan[k] = "no_chat_id" -> RunLoop_AbortOnError(a, k + 1)
              [] OTHER -> [a EXCEPT !.pc = "safe_send",
                                    !.sends = Append(@, [u |-> k, kind |-> "text"])]

\* `for uid in user_ids` from user k on, up to the next await or the end
RECURSIVE RunLoop(_, _)
RunLoop(j, k) ==
    IF k > Len(j.plan) THEN [j EXCEPT !.pc = "done", !.i = k]
    ELSE LET a == [j EXCEPT !.i = k, !.attempted = Append(@, k)]
         IN CASE j.plan[k] \in {"lookup_error", "report_error"} ->
                     RunLoop([a EXCEPT !.logged = Append(@, k)], k + 1)
              [] j.plan[k] = "no_chat_id" -> RunLoop(a, k + 1)
              [] OTHER -> [a EXCEPT !.pc = "safe_send",
                                    !.sends = Append(@, [u |-> k, kind |-> "text"])]

\* --------------------------------------------------------- dates, charts
\* a datetime: the proleptic ordinal of its date and its time of day
DT(ordinal, hour, minute, second, microsecond) ==
    [ordinal |-> ordinal, hour |-> hour, minute |-> minute, second |-> second,
     microsecond |-> microsecond]

\* d.replace(hour=0, minute=0, second=0, microsecond=0)
ReplaceMidnight(d) == [d EXCEPT !.hour = 0, !.minute = 0, !.second = 0, !.microsecond = 0]

\* d + timedelta(days=n)
PlusDays(d, n) == [d EXCEPT !.ordinal = @ + n]

\* d.weekday(): Monday is 0; ordinal 1 (0001-01-01) is a Monday
weekday(d) == (d.ordinal + 6) % 7

\* microsecond is left as it was
day_range_local_KeepsMicrosecond(d) ==
    LET start == [d EXCEPT !.hour = 0, !.minute = 0, !.second = 0]
    IN [start |-> start, end |-> PlusDays(start, 1)]

\* utils.day_range_local
day_range_local(d) ==
    LET start == ReplaceMidnight(d)
    IN [start |-> start, end |-> PlusDays(start, 1)]

\* the week is counted back with isoweekday(), Monday being 1
week_range_local_IsoWeekday(d) ==
    LET start == PlusDays(ReplaceMidnight(d), 0 - (weekday(d) + 1))
    IN [start |-> start, end |-> PlusDays(start, 7)]

\* utils.week_range_local
week_range_local(d) ==
    LET start == PlusDays(ReplaceMidnight(d), 0 - weekday(d))
    IN [start |-> start, end |-> PlusDays(start, 7)]

\* the instants the range functions are called with
DateTimeSamples ==
    { DT(TEST_MONDAY + o, h, m, sec, us) :
        o \in 0..MaxDayOffset, h \in {0, 15, 23}, m \in {0, 30, 59},
        sec \in {0, 59}, us \in {0, 999999} }

NoRanges == [fn |-> "", d |-> DT(1, 0, 0, 0, 0), start |-> DT(1, 0, 0, 0, 0),
             end |-> DT(1, 0, 0, 0, 0)]

\* the loop stops before the end date
RECURSIVE FillSeries_EndExclusive(_, _, _, _)
FillSeries_EndExclusive(cur, end, totals_by_day, series) ==
    IF cur >= end THEN series
    ELSE FillSeries_EndExclusive(cur + 1, end, totals_by_day,
            [x_all |-> Append(series.x_all, cur),
             y_all |-> Append(series.y_all,
                              IF cur \in DOMAIN totals_by_day THEN totals_by_day[cur] ELSE 0)])

\* `while cur <= end.date()`: x_all and y_all, one point per day
RECURSIVE FillSeries(_, _, _, _)
FillSeries(cur, end, totals_by_day, series) ==
    IF cur > end THEN series
    ELSE FillSeries(cur + 1, end, totals_by_day,
            [x_all |-> Append(series.x_all, cur),
             y_all |-> Append(series.y_all,
                              IF cur \in DOMAIN totals_by_day THEN totals_by_day[cur] ELSE 0)])

\* sorted([v for v in y_all if v > 0])
Positives(y_all) == SortSeq(SelectSeq(y_all, LAMBDA v : v > 0), LAMBDA a, b : a < b)

\* "Escala Y": "symlog", or "linear" (set_ylim)
YScale(y_all) ==
    LET positives == Positives(y_all)
        median == positives[(Len(positives) \div 2) + 1]
        vmax == positives[Len(positives)]
    IN IF positives = <<>> THEN "linear"
       ELSE IF median > 0 /\ vmax >= SYMLOG_RATIO * median THEN "symlog"
       ELSE "linear"

\* daily totals (hundredths) a day may have; 0 is a day whose sum is 0 or null
TotalSamples == {0, Hundredths(1), Hundredths(3), Hundredths(8), Hundredths(10), Hundredths(20)}

\* the dicts day -> total over the days from start to end
TotalsByDay(start, end) ==
    UNION { [days -> TotalSamples] : days \in SUBSET (start..end) }

NoChart == [start |-> 1, end |-> 0, totals_by_day |-> <<>>, x_all |-> <<>>, y_all |-> <<>>,
            yscale |-> ""]

Init ==
    /\ job = NoJob
    /\ ranges = NoRanges
    /\ chart = NoChart
    /\ ALLOWED_ENV \in { e \in EnvSamples : EnvLoads(e) }
    /\ now = 0
    /\ user_timestamps = << >>
    /\ ledger = << >>
    /\ tasks = EmptyBag
    /\ nmsgs = 0
    /\ rateLog = << >>
    /\ last = IdleTask

\* time passes
Tick ==
    /\ now < MaxTime
    /\ now' = now + 1
    /\ UNCHANGED <<job, ranges, chart, ALLOWED_ENV, user_timestamps, ledger, tasks, nmsgs, rateLog, last>>

\* on_text is called with a text message and runs to its first await
OnTextStart(uid, txt) ==
    /\ CanStart
    /\ LET text_in == TextSamples[txt]
           g == InputGuard(user_timestamps, uid, text_in, now)
           t0 == [IdleTask EXCEPT !.kind = "text", !.uid = uid, !.txt = txt,
                                  !.checked = g.checked,
                                  !.over = Cardinality(AcceptedInWindow(rateLog, uid, now))
                                              >= RATE_LIMIT_MSGS]
       IN /\ user_timestamps' = g.store
          /\ rateLog' = IF g.checked
                        THEN Append(rateLog, [uid |-> uid, at |-> now, limited |-> g.limited])
                        ELSE rateLog
          /\ Place(IdleTask,
                CASE g.verdict = "ignore" -> StartSending(t0, <<>>)
                  [] g.verdict = "slow_down" -> StartSending(t0, <<SlowDownReply>>)
                  [] g.verdict = "too_long" -> StartSending(t0, <<TooLongReply(Len(text_in))>>)
                  [] OTHER -> [t0 EXCEPT !.pc = "extracting", !.calls = 1])
    /\ nmsgs' = nmsgs + 1
    /\ UNCHANGED <<job, ranges, chart, ALLOWED_ENV, now, ledger>>

\* extract_expense returns or raises; on_text runs on to `await safe_send`
OnTextResume(t, resp, db_ok) ==
    /\ t \in InFlight
    /\ t.pc = "extracting"
    /\ LET o == HandleResponse(resp, t.uid, t.uid, TextSamples[t.txt], db_ok)
       IN /\ ledger' = IF o.write THEN Append(ledger, o.entry) ELSE ledger
          /\ Place(t, StartSending([t EXCEPT !.resp = resp, !.db = o.db, !.exc = o.exc,
                                                   !.wrote = IF o.write THEN 1 ELSE 0,
                                                   !.row = IF o.write THEN Len(ledger) + 1 ELSE 0],
                                   <<o.reply>>))
    /\ UNCHANGED <<job, ranges, chart, ALLOWED_ENV, now, user_timestamps, nmsgs, rateLog>>

\* start, gastos, ganhos, relatorio, saldo, balanco, grafico, teste23:
\* `if not is_allowed(...): return`, then the command's replies
CommandStart(uid, cmd) ==
    /\ CanStart
    /\ LET t0 == [IdleTask EXCEPT !.kind = cmd, !.uid = uid]
       IN Place(IdleTask, IF ~is_allowed(uid) THEN StartSending(t0, <<>>)
                   ELSE StartSending(t0, CommandReplies(cmd)))
    /\ nmsgs' = nmsgs + 1
    /\ UNCHANGED <<job, ranges, chart, ALLOWED_ENV, now, user_timestamps, ledger, rateLog>>

\* safe_send / safe_send_photo returns.  It returns normally whatever the
\* transport did: delivered on one of its three attempts, given up after three
\* NetworkError / TimedOut, or given up on any other exception, which it logs.
\* The handler then makes its next send, or returns.
SafeSendReturn(t) ==
    /\ t \in InFlight
    /\ t.pc = "sending"
    /\ LET got == [t EXCEPT !.outbox = Tail(@)]
       IN Place(t, IF got.outbox = <<>> THEN Returned(got)
                   ELSE [got EXCEPT !.sent = Append(@, Head(got.outbox))])
    /\ UNCHANGED <<job, ranges, chart, ALLOWED_ENV, now, user_timestamps, ledger, nmsgs, rateLog>>

\* every handler, several at a time, a few updates
Next ==
    \/ \E uid \in Users, txt \in TextIds : nmsgs < MaxMsgs /\ OnTextStart(uid, txt)
    \/ \E t \in InFlight, resp \in FewResponses, db_ok \in BOOLEAN : OnTextResume(t, resp, db_ok)
    \/ \E uid \in Users, cmd \in Commands : nmsgs < MaxMsgs /\ CommandStart(uid, cmd)
    \/ \E t \in InFlight : SafeSendReturn(t)

Spec == Init /\ [][Next]_vars

\* text messages short and long as time passes, several handlers at a time,
\* enough messages to fill a rate window and outlive it
RateTexts == {2, 4}

NextRate ==
    \/ Tick
    \/ \E uid \in Users, txt \in RateTexts : nmsgs < MaxRateMsgs /\ OnTextStart(uid, txt)
    \/ \E t \in InFlight : OnTextResume(t, Response("object", WellFormed(NONE), 200, <<>>), TRUE)
    \/ \E t \in InFlight : SafeSendReturn(t)

SpecRate == Init /\ [][NextRate]_vars

\* one handler at a time as time passes: blank, short and over-long texts,
\* enough of them to fill a rate window
NextWindow ==
    \/ Tick
    \/ \E uid \in Users, txt \in TextIds :
          nmsgs < MaxRateMsgs /\ tasks = EmptyBag /\ OnTextStart(uid, txt)
    \/ \E t \in InFlight : OnTextResume(t, Response("object", WellFormed(NONE), 200, <<>>), TRUE)
    \/ \E t \in InFlight : SafeSendReturn(t)

SpecWindow == Init /\ [][NextWindow]_vars

\* one handler at a time, every classification outcome
NextExtract ==
    \/ \E uid \in Users, txt \in TextIds :
          nmsgs < MaxExtractMsgs /\ tasks = EmptyBag /\ OnTextStart(uid, txt)
    \/ \E t \in InFlight, resp \in Responses, db_ok \in BOOLEAN : OnTextResume(t, resp, db_ok)
    \/ \E t \in InFlight : SafeSendReturn(t)

SpecExtract == Init /\ [][NextExtract]_vars

\* ---------------------------------------------------- scheduled job steps
\* the job queue calls scheduled_23h; the listing returns; the loop runs to
\* its first await
ScheduledStart(plan) ==
    /\ job.pc = "idle"
    /\ job' = RunLoop([job EXCEPT !.plan = plan], 1)
    /\ UNCHANGED <<ALLOWED_ENV, now, user_timestamps, ledger, tasks, nmsgs, rateLog, last,
                   ranges, chart>>

\* safe_send returns (it never raises); build_daily_chart_png is called and
\* the photo sent, or its exception is logged and the loop goes on
ScheduledTextSent ==
    /\ job.pc = "safe_send"
    /\ job' = IF job.plan[job.i] = "chart_error"
              THEN RunLoop([job EXCEPT !.logged = Append(@, job.i)], job.i + 1)
              ELSE [job EXCEPT !.pc = "safe_send_photo",
                               !.sends = Append(@, [u |-> job.i, kind |-> "photo"])]
    /\ UNCHANGED <<ALLOWED_ENV, now, user_timestamps, ledger, tasks, nmsgs, rateLog, last,
                   ranges, chart>>

\* safe_send_photo returns (it never raises); the loop goes on
ScheduledPhotoSent ==
    /\ job.pc = "safe_send_photo"
    /\ job' = RunLoop(job, job.i + 1)
    /\ UNCHANGED <<ALLOWED_ENV, now, user_timestamps, ledger, tasks, nmsgs, rateLog, last,
                   ranges, chart>>

\* ------------------------------------------------- reports and charts
\* day_range_local(d) is called
DayRangeCall(d) ==
    /\ ranges' = [fn |-> "day_range_local", d |-> d,
                  start |-> day_range_local(d).start, end |-> day_range_local(d).end]
    /\ UNCHANGED <<ALLOWED_ENV, now, user_timestamps, ledger, tasks, nmsgs, rateLog, last,
                   job, chart>>

\* week_range_local(d) is called
WeekRangeCall(d) ==
    /\ ranges' = [fn |-> "week_range_local", d |-> d,
                  start |-> week_range_local(d).start, end |-> week_range_local(d).end]
    /\ UNCHANGED <<ALLOWED_ENV, now, user_timestamps, ledger, tasks, nmsgs, rateLog, last,
                   job, chart>>

\* build_daily_chart_png(user_id, days) is called on the date `end`, the
\* query returning the rows totals_by_day is made from
BuildDailyChart(end, days, totals_by_day) ==
    LET start == end - days
        series == FillSeries(start, end, totals_by_day, [x_all |-> <<>>, y_all |-> <<>>])
    IN /\ chart' = [start |-> start, end |-> end, totals_by_day |-> totals_by_day,
                    x_all |-> series.x_all, y_all |-> series.y_all,
                    yscale |-> YScale(series.y_all)]
       /\ UNCHANGED <<ALLOWED_ENV, now, user_timestamps, ledger, tasks, nmsgs, rateLog, last,
                      job, ranges>>

\* none of the report functions has been called yet
NoReportYet == ranges = NoRanges /\ chart = NoChart

\* the pure parts of the reports, one call of one of them on every input:
\* the day range, the week range, the chart series and its scale
NextReport ==
    \/ NoReportYet /\ \E d \in DateTimeSamples : DayRangeCall(d)
    \/ NoReportYet /\ \E d \in DateTimeSamples : WeekRangeCall(d)
    \/ /\ NoReportYet
       /\ \E days \in 0..MaxChartDays :
             \E totals_by_day \in TotalsByDay(TEST_MONDAY + MaxDayOffset - days,
                                               TEST_MONDAY + MaxDayOffset) :
                 BuildDailyChart(TEST_MONDAY + MaxDayOffset, days, totals_by_day)

SpecReport == Init /\ [][NextReport]_vars

\* one run of the scheduled job over every listing
NextJob ==
    \/ \E plan \in JobPlans(MaxJobUsers) : ScheduledStart(plan)
    \/ ScheduledTextSent
    \/ ScheduledPhotoSent

SpecJob == Init /\ [][NextJob]_vars

\* ================================================================ claims
\* the handlers the state knows of: those in flight and the last to return
Handlers == InFlight \cup {last}

\* a text handler that has resumed after `await extract_expense`
Resumed(r) == r.kind = "text" /\ r.resp.kind # "none"

TextOf(r) == TextSamples[r.txt]

\* a number a with 0 < a <= MAX_AMOUNT
InRange(v) == v.k = "num" /\ 0 < v.n /\ v.n <= Hundredths(MAX_AMOUNT)

\* the handler's row is in the ledger with the amount the classifier returned,
\* the sender's id and the message text
Persisted(r) ==
    /\ r.row \in 1..Len(ledger)
    /\ ledger[r.row].amount = r.resp.obj.amount
    /\ ledger[r.row].user_id = PyStr(r.uid)
    /\ ledger[r.row].raw_text = TextOf(r)

\* the description is a string or falsy, the category is hashable and the
\* confidence is falsy or converts to a float
OtherFieldsWellTyped(obj) ==
    /\ PyTruthy(PyGet(obj, "description")) => obj.description.k = "str"
    /\ obj.category.k # "list"
    /\ PyTruthy(PyGet(obj, "confidence")) => PyFloat(obj.confidence).exc = ""

\* C1: every entry in the ledger has an amount a with 0 < a <= MAX_AMOUNT.
\* Violated: an amount of NaN passes both comparisons of the validation and
\* is inserted.
C1_LedgerAmountsInRange ==
    \A i \in 1..Len(ledger) : InRange(ledger[i].amount)

InvalidAmount(v) ==
    \/ v.k \in {"absent", "null", "list", "inf", "bigint"}
    \/ v.k = "str" /\ PyFloat(v).exc = "ValueError"
    \/ v.k = "num" /\ (v.n <= 0 \/ v.n > Hundredths(MAX_AMOUNT))

\* C3: when the amount of the classification result is null, unparsable,
\* non-positive or greater than MAX_AMOUNT (the other fields being as the
\* prompt asks), no entry is written and the reply is the "not understood"
\* message.  Violated: an integer too large for a float makes float() raise
\* OverflowError, which the validation does not catch, and the reply is the
\* raw error.
C3_InvalidAmountNotUnderstood ==
    \A r \in Handlers :
        ( /\ Resumed(r)
          /\ r.resp.kind = "object"
          /\ r.resp.obj = WellFormed(r.resp.obj.amount)
          /\ InvalidAmount(r.resp.obj.amount) )
        => (r.sent = <<NotUnderstoodReply>> /\ r.wrote = 0)

\* ---------------------------------------------------------------- C4, C5
\* the accepted calls of the same user before call i that are less than
\* RATE_LIMIT_WINDOW old when call i is made
EarlierAccepted(i) ==
    { j \in 1..(i - 1) :
        /\ rateLog[j].uid = rateLog[i].uid
        /\ ~rateLog[j].limited
        /\ rateLog[j].at > rateLog[i].at - RATE_LIMIT_WINDOW }

\* the time of the user's latest is_rate_limited call
LatestCall(uid) ==
    LET calls == { i \in 1..Len(rateLog) : rateLog[i].uid = uid }
    IN rateLog[CHOOSE i \in calls : \A j \in calls : j <= i].at

\* the timestamps of the user's accepted calls later than `since`, in order
AcceptedSince(uid, since) ==
    LET sel == SelectSeq(rateLog, LAMBDA e : e.uid = uid /\ ~e.limited /\ e.at > since)
    IN [k \in 1..Len(sel) |-> sel[k].at]

\* C4: a call is rejected exactly when the user already has RATE_LIMIT_MSGS
\* accepted timestamps inside the trailing window; an accepted call records its
\* timestamp and a rejected call records none, so the stored window is always
\* the accepted timestamps less than RATE_LIMIT_WINDOW old at the latest call;
\* hence a call made once every accepted call is at least RATE_LIMIT_WINDOW
\* old is accepted, whatever was rejected in between.
C4_RejectsExactlyWhenWindowFull ==
    /\ \A i \in 1..Len(rateLog) :
          rateLog[i].limited <=> Cardinality(EarlierAccepted(i)) >= RATE_LIMIT_MSGS
    /\ DOMAIN user_timestamps = { rateLog[i].uid : i \in 1..Len(rateLog) }
    /\ \A uid \in DOMAIN user_timestamps :
          user_timestamps[uid] = AcceptedSince(uid, LatestCall(uid) - RATE_LIMIT_WINDOW)
    /\ \A i \in 1..Len(rateLog) :
          (\A j \in 1..(i - 1) :
              (rateLog[j].uid = rateLog[i].uid /\ ~rateLog[j].limited)
                  => rateLog[i].at - rateLog[j].at >= RATE_LIMIT_WINDOW)
          => ~rateLog[i].limited

\* one user fills the window, is rejected, and is accepted again once the
\* window has passed
C4_Witness ==
    /\ Len(rateLog) = RATE_LIMIT_MSGS + 2
    /\ \A i \in 1..Len(rateLog) : rateLog[i].uid = 42
    /\ \A i \in 1..RATE_LIMIT_MSGS : ~rateLog[i].limited
    /\ rateLog[RATE_LIMIT_MSGS + 1].limited
    /\ ~rateLog[RATE_LIMIT_MSGS + 2].limited

\* C5: whatever the interleaving of the handlers, the limiter accepts at most
\* RATE_LIMIT_MSGS messages of one user within any span of RATE_LIMIT_WINDOW
\* seconds.
C5_AtMostLimitPerWindow ==
    \A uid \in Users, at \in 0..MaxTime :
        Cardinality(AcceptedInWindow(rateLog, uid, at)) <= RATE_LIMIT_MSGS

\* two handlers of the same user are awaiting the classifier at once, the
\* window is full, and a further message of that user has been rejected
C5_Witness ==
    /\ BagCardinality(tasks) >= 2
    /\ \A t \in InFlight : t.pc = "extracting" /\ t.uid = 42
    /\ Cardinality(AcceptedInWindow(rateLog, 42, now)) = RATE_LIMIT_MSGS
    /\ \E i \in 1..Len(rateLog) : rateLog[i].uid = 42 /\ rateLog[i].limited

\* ------------------------------------------------------------ C6, C7, C8, C9
NonEmptyAllowSet == ~ALLOWED_USERS.none /\ ALLOWED_USERS.ids # {}

Outsider(uid) == ~ALLOWED_USERS.none /\ uid \notin ALLOWED_USERS.ids

\* C6: with a non-empty allow-set, a text message or command from a user
\* outside the set is dropped silently (the handler returns at once: no reply,
\* no is_rate_limited call, no rate window for the user, no classification
\* call, no entry), and a user inside the set proceeds: a command is answered
\* and a non-blank text reaches the rate check.
C6_OutsidersDroppedSilently ==
    NonEmptyAllowSet =>
        /\ \A r \in Handlers :
              (r.kind # "" /\ Outsider(r.uid)) =>
                  /\ r.pc = "done"
                  /\ r.sent = <<>>
                  /\ ~r.checked
                  /\ r.calls = 0
                  /\ r.wrote = 0
        /\ \A uid \in Users :
              Outsider(uid) =>
                  /\ uid \notin DOMAIN user_timestamps
                  /\ \A i \in 1..Len(rateLog) : rateLog[i].uid # uid
                  /\ \A i \in 1..Len(ledger) : ledger[i].user_id # PyStr(uid)
        /\ \A r \in Handlers :
              (r.kind \in Commands /\ ~Outsider(r.uid)) => r.sent # <<>>
        /\ \A r \in Handlers :
              (r.kind = "text" /\ ~Outsider(r.uid) /\ Strip(TextOf(r)) # <<>>) => r.checked

\* user 7 is outside the allow-set {42}: its message has just been dropped
\* while user 42 has a rate window and an entry
C6_Witness ==
    /\ ALLOWED_USERS.ids = {42}
    /\ last.pc = "done"
    /\ last.uid = 7
    /\ last.kind = "text"
    /\ Strip(TextOf(last)) # <<>>
    /\ 42 \in DOMAIN user_timestamps
    /\ Len(ledger) > 0

\* C7: the guard checks allowlist, then rate limit, then length: a text from a
\* user outside the allowlist gets no reply and no rate check whatever its
\* length, and a text over the rate limit and longer than MAX_TEXT_LENGTH gets
\* the "slow down" reply, never the length error.
C7_GuardOrder ==
    \A r \in Handlers :
        r.kind = "text" =>
            /\ Outsider(r.uid) => (r.sent = <<>> /\ ~r.checked)
            /\ ( /\ ~Outsider(r.uid)
                 /\ Strip(TextOf(r)) # <<>>
                 /\ r.over
                 /\ Len(TextOf(r)) > MAX_TEXT_LENGTH ) => r.sent = <<SlowDownReply>>

\* a text longer than MAX_TEXT_LENGTH arrived with the sender's window full
\* and was answered "slow down"
C7_Witness ==
    /\ last.kind = "text"
    /\ last.over
    /\ Len(TextOf(last)) > MAX_TEXT_LENGTH
    /\ last.sent = <<SlowDownReply>>

\* C8: whenever the ALLOWED_USERS setting yields no user identifier, is_allowed
\* is true of every user who sends an update, and so no command is dropped for
\* its sender.
\* Violated: a setting such as "," is not empty after strip() and yields the
\* empty set instead of None, so every user is refused.
C8_NoIdentifierMeansUnrestricted ==
    AllowedPieces(ALLOWED_ENV) = {} =>
        \A r \in Handlers :
            /\ r.kind # "" => is_allowed(r.uid)
            /\ r.kind \in Commands => r.sent # <<>>

\* C9: a text from an allowed user who is not over the rate limit is rejected
\* when it is longer than MAX_TEXT_LENGTH, with one reply stating its length
\* and the limit, no classification call and no entry; a text of at most
\* MAX_TEXT_LENGTH characters goes on to the classification call.
C9_LengthBound ==
    \A r \in Handlers :
        (r.kind = "text" /\ is_allowed(r.uid) /\ Strip(TextOf(r)) # <<>> /\ ~r.over) =>
            IF Len(TextOf(r)) > MAX_TEXT_LENGTH
            THEN /\ r.sent = <<TooLongReply(Len(TextOf(r)))>>
                 /\ r.sent[1].m = MAX_TEXT_LENGTH
                 /\ r.calls = 0
                 /\ r.wrote = 0
                 /\ \A i \in 1..Len(ledger) : ledger[i].raw_text # TextOf(r)
            ELSE r.calls = 1

\* a text of MAX_TEXT_LENGTH + 1 characters has just been rejected and a text
\* of exactly MAX_TEXT_LENGTH characters has been stored
C9_Witness ==
    /\ last.pc = "done"
    /\ last.kind = "text"
    /\ Len(last.sent) = 1
    /\ last.sent[1].kind = "too_long"
    /\ last.sent[1].n = MAX_TEXT_LENGTH + 1
    /\ \E i \in 1..Len(ledger) : Len(ledger[i].raw_text) = MAX_TEXT_LENGTH

\* ------------------------------------------------------------------- C10
\* C10: when the classification call fails (HTTP error status, timeout,
\* malformed or non-object JSON) or anything raises while its result is
\* processed, no entry is written and exactly one reply is sent: for an HTTP
\* error it carries the status code and the first ERROR_BODY_CHARS characters
\* of the error body, for anything else it is the generic failure message;
\* never "not understood" nor "registered".
C10_FailureReply ==
    \A r \in Handlers :
        Resumed(r) =>
            /\ r.resp.kind # "object" => r.exc # ""
            /\ r.resp.kind = "http_error" <=> r.exc = "HTTPStatusError"
            /\ r.exc # "" =>
                  /\ r.wrote = 0
                  /\ r.row = 0
                  /\ Len(r.sent) = 1
                  /\ IF r.exc = "HTTPStatusError"
                     THEN /\ r.sent[1].kind = "http_error"
                          /\ r.sent[1].n = r.resp.status
                          /\ Len(r.sent[1].body) <= ERROR_BODY_CHARS
                          /\ \/ Len(r.sent[1].body) = Len(r.resp.body)
                             \/ Len(r.sent[1].body) = ERROR_BODY_CHARS
                          /\ \A i \in 1..Len(r.sent[1].body) : r.sent[1].body[i] = r.resp.body[i]
                     ELSE r.sent[1].kind = "error"

\* an HTTP error with a body of ERROR_BODY_CHARS + 1 characters was answered
\* with its status and the body cut to ERROR_BODY_CHARS, and nothing is stored
C10_Witness ==
    /\ last.pc = "done"
    /\ last.exc = "HTTPStatusError"
    /\ Len(last.resp.body) = ERROR_BODY_CHARS + 1
    /\ Len(last.sent[1].body) = ERROR_BODY_CHARS
    /\ last.sent[1].n = 429
    /\ ledger = <<>>

\* ------------------------------------------------------------------- C11
\* the three terminal outcomes of a text handler that has resumed
Validated(r) ==
    /\ r.exc = ""
    /\ Len(r.sent) = 1
    /\ r.sent[1].kind \in {"expense_registered", "income_registered"}

Unrecognized(r) == r.exc = "" /\ r.sent = <<NotUnderstoodReply>>

FailedOutcome(r) ==
    /\ r.exc # ""
    /\ Len(r.sent) = 1
    /\ r.sent[1].kind \in {"http_error", "error"}

\* the message got through the blank, allowlist, rate and length checks
PassedGuard(r) ==
    /\ r.kind = "text"
    /\ Strip(TextOf(r)) # <<>>
    /\ is_allowed(r.uid)
    /\ ~r.over
    /\ Len(TextOf(r)) <= MAX_TEXT_LENGTH

\* C11: a message that passes the input guard makes exactly one call to the
\* classification capability; while it awaits the call nothing is written or
\* sent; once the call is over the handler is in exactly one of Validated,
\* Unrecognized and Failed, has written one row if Validated and none
\* otherwise; a message stopped by the guard makes no call; so the ledger never
\* holds more rows than messages have arrived.
C11_OneCallOneOutcome ==
    /\ \A r \in Handlers :
          r.kind = "text" =>
              /\ r.calls = (IF PassedGuard(r) THEN 1 ELSE 0)
              /\ PassedGuard(r) <=> (r.pc = "extracting" \/ Resumed(r))
              /\ r.pc = "extracting" => (r.wrote = 0 /\ r.sent = <<>> /\ ~Resumed(r))
              /\ Resumed(r) =>
                    /\ r.pc \in {"sending", "done"}
                    /\ \/ Validated(r) /\ ~Unrecognized(r) /\ ~FailedOutcome(r)
                       \/ ~Validated(r) /\ Unrecognized(r) /\ ~FailedOutcome(r)
                       \/ ~Validated(r) /\ ~Unrecognized(r) /\ FailedOutcome(r)
                    /\ r.wrote = (IF Validated(r) THEN 1 ELSE 0)
                    /\ r.wrote = 1 <=> r.row \in 1..Len(ledger)
    /\ Len(ledger) <= nmsgs

\* two messages have been through the classifier: the first was Validated and
\* wrote the only row, the second ended Unrecognized
C11_Witness ==
    /\ nmsgs = 2
    /\ Len(ledger) = 1
    /\ last.pc = "done"
    /\ Resumed(last)
    /\ Unrecognized(last)
    /\ last.wrote = 0
    /\ last.calls = 1

\* ------------------------------------------------------- C12, C13, C14, C15
\* C12: every row of the ledger has a category among the keys of
\* CATEGORY_EMOJI, a category outside them being stored as "outros".
\* Violated: on_text passes `obj.get("category") or "outros"` to the insert,
\* so a category such as "pets" is stored as it was returned.
C12_CategoryInEnumeration ==
    \A i \in 1..Len(ledger) :
        /\ ledger[i].category.k = "str"
        /\ ledger[i].category.s \in CATEGORY_EMOJI

\* C13: every row of the ledger has the type "expense" or "income"; the row a
\* handler wrote is "income" when the classifier's type is the string
\* "income" and "expense" when it is absent or anything else.
C13_TypeNormalized ==
    /\ \A i \in 1..Len(ledger) : ledger[i].type \in {"expense", "income"}
    /\ \A r \in Handlers :
          (Resumed(r) /\ r.wrote = 1) =>
              ledger[r.row].type =
                  (IF r.resp.obj.type = Str("income") THEN "income" ELSE "expense")

\* the classifier returned the type "refund" and the row is an expense
C13_Witness ==
    /\ Resumed(last)
    /\ last.wrote = 1
    /\ last.resp.obj.type = Str("refund")
    /\ ledger[last.row].type = "expense"

\* C14: every row of the ledger has a confidence c with 0 <= c <= 1.
\* Violated: on_text stores float(obj.get("confidence") or 0) as it is, so a
\* confidence of 2.0 (or NaN) is stored.
C14_ConfidenceInUnitInterval ==
    \A i \in 1..Len(ledger) :
        /\ ledger[i].confidence.k = "num"
        /\ 0 <= ledger[i].confidence.n
        /\ ledger[i].confidence.n <= Hundredths(1)

\* confidence values the classifier may return
ConfidenceSamples ==
    {ABSENT, NONE, Num(0), Num(10), Num(90), Num(200), Str("0.9"), Str("high"), NAN, BIGINT, LIST}

\* the confidence is falsy or converts to a float
ConfidenceConverts(c) ==
    LET v == IF c.k = "absent" THEN NONE ELSE c
    IN PyTruthy(v) => PyFloat(v).exc = ""

\* what on_text would have done had the classifier returned the confidence c
\* in place of the one it did, the insert statement faring the same
WithConfidence(r, c) ==
    HandleResponse([r.resp EXCEPT !.obj.confidence = c], r.uid, r.uid, TextOf(r), r.db # "error")

\* the handler did as that outcome: the same write / no write decision and,
\* when a row is written, the same amount, category and type
SameDecision(r, o) ==
    /\ (r.wrote = 1) = o.write
    /\ o.write =>
          /\ ledger[r.row].amount = o.entry.amount
          /\ ledger[r.row].category = o.entry.category
          /\ ledger[r.row].type = o.entry.type

ExpectedSends(k) ==
    CASE job.plan[k] = "ok" -> <<"text", "photo">>
      [] job.plan[k] = "chart_error" -> <<"text">>
      [] OTHER -> <<>>

SendsOf(k) ==
    LET sel == SelectSeq(job.sends, LAMBDA e : e.u = k)
    IN [n \in 1..Len(sel) |-> sel[n].kind]

\* C16: the job begins the iteration of every listed user, in order, whatever
\* was raised for the users before: once it has returned, every user has been
\* attempted exactly once; each exception is logged for its user; a user
\* without a chat id gets no send at all; and a user whose iteration is over
\* got the sends its own outcome allows, whatever happened to the others.
C16_BatchSurvivesFailures ==
    /\ job.attempted = [k \in 1..Len(job.attempted) |-> k]
    /\ Len(job.attempted) <= Len(job.plan)
    /\ job.pc = "done" => Len(job.attempted) = Len(job.plan)
    /\ \A k \in 1..Len(job.plan) :
          /\ job.plan[k] \in {"no_chat_id", "lookup_error", "report_error"} => SendsOf(k) = <<>>
          /\ (job.pc = "done" \/ k < job.i) =>
                /\ SendsOf(k) = ExpectedSends(k)
                /\ (\E n \in 1..Len(job.logged) : job.logged[n] = k)
                      <=> job.plan[k] \in {"lookup_error", "report_error", "chart_error"}

\* the first user's report failed, the second has no chat id, and the third
\* has been sent its report and chart
C16_Witness ==
    /\ job.pc = "done"
    /\ Len(job.plan) = 3
    /\ job.plan[1] = "report_error"
    /\ job.plan[2] = "no_chat_id"
    /\ job.plan[3] = "ok"
    /\ job.sends = <<[u |-> 3, kind |-> "text"], [u |-> 3, kind |-> "photo"]>>

\* ------------------------------------------------------------------- C17
\* build_daily_chart_png has been called
Charted == chart.yscale # ""

\* C17: the series has exactly one point per calendar day from the start date
\* to the end date inclusive, in ascending order, whose value is the day's
\* total where the totals have one and 0 otherwise.
C17_OnePointPerDay ==
    Charted =>
        /\ Len(chart.x_all) = chart.end - chart.start + 1
        /\ Len(chart.y_all) = Len(chart.x_all)
        /\ \A i \in 1..Len(chart.x_all) :
              /\ chart.x_all[i] = chart.start + i - 1
              /\ chart.y_all[i] = (IF chart.x_all[i] \in DOMAIN chart.totals_by_day
                                   THEN chart.totals_by_day[chart.x_all[i]] ELSE 0)

\* a 5-day range where only day 2 and day 4 have totals, 10 and 20
C17_Witness ==
    /\ Charted
    /\ chart.end - chart.start = 4
    /\ DOMAIN chart.totals_by_day = {chart.start + 1, chart.start + 3}
    /\ chart.y_all = <<0, Hundredths(10), 0, Hundredths(20), 0>>

\* ------------------------------------------------------------- C18, C19
\* t1 is not after t2, and t1 is before t2, as datetimes compare
SecondOfDay(t) == t.hour * 3600 + t.minute * 60 + t.second

NotAfter(t1, t2) ==
    \/ t1.ordinal < t2.ordinal
    \/ /\ t1.ordinal = t2.ordinal
       /\ \/ SecondOfDay(t1) < SecondOfDay(t2)
          \/ SecondOfDay(t1) = SecondOfDay(t2) /\ t1.microsecond <= t2.microsecond

Before(t1, t2) == NotAfter(t1, t2) /\ t1 # t2

IsMidnight(t) == t.hour = 0 /\ t.minute = 0 /\ t.second = 0 /\ t.microsecond = 0

\* t2 - t1 is exactly n days
DaysApart(t1, t2, n) ==
    /\ (t2.ordinal - t1.ordinal) * 86400 + SecondOfDay(t2) - SecondOfDay(t1) = n * 86400
    /\ t2.microsecond = t1.microsecond

\* TEST_MONDAY is a Monday, and so is every date a multiple of 7 days from it
IsMonday(t) == (t.ordinal - TEST_MONDAY) % 7 = 0

\* C18: week_range_local(d) returns start at midnight of the Monday on or
\* before d's date (a Monday at most 6 days before it), end 7 days after
\* start, and start <= d < end.
C18_WeekRange ==
    ranges.fn = "week_range_local" =>
        /\ IsMidnight(ranges.start)
        /\ IsMonday(ranges.start)
        /\ ranges.start.ordinal <= ranges.d.ordinal
        /\ ranges.d.ordinal - ranges.start.ordinal <= 6
        /\ DaysApart(ranges.start, ranges.end, 7)
        /\ NotAfter(ranges.start, ranges.d)
        /\ Before(ranges.d, ranges.end)

\* a Sunday, one microsecond before midnight: the week began six days before
C18_Witness ==
    /\ ranges.fn = "week_range_local"
    /\ ranges.d = DT(TEST_MONDAY + 6, 23, 59, 59, 999999)
    /\ ranges.start = DT(TEST_MONDAY, 0, 0, 0, 0)
    /\ ranges.end = DT(TEST_MONDAY + 7, 0, 0, 0, 0)

\* C19: day_range_local(d) returns start at midnight of d's own date, end 24
\* hours after start, and start <= d < end; when d is midnight, start is d.
C19_DayRange ==
    ranges.fn = "day_range_local" =>
        /\ IsMidnight(ranges.start)
        /\ ranges.start.ordinal = ranges.d.ordinal
        /\ DaysApart(ranges.start, ranges.end, 1)
        /\ NotAfter(ranges.start, ranges.d)
        /\ Before(ranges.d, ranges.end)
        /\ IsMidnight(ranges.d) => ranges.start = ranges.d

\* called at midnight, and called one microsecond before the next midnight
C19_Witness ==
    /\ ranges.fn = "day_range_local"
    /\ \/ IsMidnight(ranges.d) /\ ranges.start = ranges.d
       \/ /\ ranges.d = DT(TEST_MONDAY, 23, 59, 59, 999999)
          /\ ranges.start = DT(TEST_MONDAY, 0, 0, 0, 0)
          /\ ranges.end = DT(TEST_MONDAY + 1, 0, 0, 0, 0)

\* ------------------------------------------------------------------- C20
\* max(positives) / median(positives) >= SYMLOG_RATIO, the median of an even
\* number of values being the mean of the two in the middle
RatioAtLeastThreshold(positives) ==
    LET n == Len(positives)
        vmax == positives[n]
    IN IF n % 2 = 1
       THEN vmax >= SYMLOG_RATIO * positives[(n + 1) \div 2]
       ELSE 2 * vmax >= SYMLOG_RATIO * (positives[n \div 2] + positives[(n \div 2) + 1])

\* C20: the symmetric-log scale is chosen exactly when the series has positive
\* values and their maximum is at least SYMLOG_RATIO times their median; the
\* linear scale otherwise.
\* Violated: the code takes positives[len(positives) // 2] for the median,
\* which for an even number of values is the upper of the two middle ones.
C20_SymlogExactlyAboveRatio ==
    Charted =>
        LET positives == Positives(chart.y_all)
        IN (chart.yscale = "symlog") <=>
              (positives # <<>> /\ RatioAtLeastThreshold(positives))

\* ------------------------------------------------------------------- C21
\* the reply the handler passed to safe_send is a confirmation
Confirmed(r) ==
    /\ Len(r.sent) = 1
    /\ r.sent[1].kind \in {"expense_registered", "income_registered"}

\* the row the handler wrote is the one its confirmation describes
RowAgrees(r) ==
    /\ r.row \in 1..Len(ledger)
    /\ ledger[r.row].user_id = PyStr(r.uid)
    /\ ledger[r.row].raw_text = TextOf(r)
    /\ ledger[r.row].amount = r.sent[1].amt
    /\ ledger[r.row].type =
          (IF r.sent[1].kind = "income_registered" THEN "income" ELSE "expense")

\* C21: a handler that has resumed sent a "registered" confirmation exactly
\* when it wrote one row, and that row has the sender, the text, the amount
\* and the type the confirmation tells; when the insert raised, the reply is
\* the failure text and the handler has no row; and the ledger only ever
\* grows by one row, in the very step that hands a confirmation to safe_send.
C21_ReplyAgreesWithLedger ==
    /\ [](\A r \in Handlers :
            Resumed(r) =>
                /\ Confirmed(r) <=> r.wrote = 1
                /\ r.wrote = 1 => RowAgrees(r)
                /\ r.wrote = 0 => r.row = 0
                /\ r.db = "error" =>
                      /\ r.sent = <<ErrorReply("DBAPIError")>>
                      /\ r.wrote = 0)
    /\ [][ledger' # ledger =>
             /\ Len(ledger') = Len(ledger) + 1
             /\ ledger' = Append(ledger, ledger'[Len(ledger')])
             /\ \E r \in InFlight' :
                   /\ r.pc = "sending"
                   /\ Confirmed(r)
                   /\ r.row = Len(ledger')]_vars

\* the classifier returned a valid amount, the insert raised, and the user
\* was sent the failure text; the ledger is empty
C21_Witness ==
    /\ last.pc = "done"
    /\ Resumed(last)
    /\ InRange(last.resp.obj.amount)
    /\ last.db = "error"
    /\ last.sent = <<ErrorReply("DBAPIError")>>
    /\ ledger = <<>>

\* ------------------------------------------------------------------- C22
\* the user has RATE_LIMIT_MSGS accepted messages in the window ending now
WindowIsFull(uid) == Cardinality(AcceptedInWindow(rateLog, uid, now)) >= RATE_LIMIT_MSGS

\* the step delivers a text message of uid with text txt to on_text, no other
\* handler being in flight
Arrives(uid, txt) ==
    /\ nmsgs' = nmsgs + 1
    /\ tasks = EmptyBag
    /\ LET h == IF tasks' = EmptyBag THEN last' ELSE CHOOSE r \in InFlight' : TRUE
       IN h.kind = "text" /\ h.uid = uid /\ h.txt = txt

\* the step records the message of uid: its timestamp is appended to the
\* user's window and one more accepted message counts against the quota
Recorded(uid) ==
    /\ rateLog' = Append(rateLog, [uid |-> uid, at |-> now, limited |-> FALSE])
    /\ uid \in DOMAIN user_timestamps'
    /\ user_timestamps'[uid] # <<>>
    /\ user_timestamps'[uid][Len(user_timestamps'[uid])] = now
    /\ \A u \in DOMAIN user_timestamps : u # uid => user_timestamps'[u] = user_timestamps[u]
    /\ Cardinality(AcceptedInWindow(rateLog', uid, now))
          = Cardinality(AcceptedInWindow(rateLog, uid, now)) + 1

\* C22: a message of an allowed user that arrives with the user's window not
\* full has its timestamp recorded and takes one unit of the quota whether or
\* not it is then rejected for its length (and the over-long one is answered
\* with the length error, no classification call being made); a blank message
\* and a message of a user outside the allow-set leave every rate window as
\* it was.
C22_GuardCountsBeforeLength ==
    [][\A uid \in Users, txt \in TextIds :
          Arrives(uid, txt) =>
              /\ (Strip(TextSamples[txt]) = <<>> \/ ~is_allowed(uid)) =>
                    /\ user_timestamps' = user_timestamps
                    /\ rateLog' = rateLog
                    /\ tasks' = EmptyBag
                    /\ last'.sent = <<>>
              /\ (Strip(TextSamples[txt]) # <<>> /\ is_allowed(uid) /\ ~WindowIsFull(uid)) =>
                    /\ Recorded(uid)
                    /\ \A r \in InFlight' :
                          IF Len(TextSamples[txt]) > MAX_TEXT_LENGTH
                          THEN r.sent = <<TooLongReply(Len(TextSamples[txt]))>> /\ r.calls = 0
                          ELSE r.pc = "extracting"]_vars

\* an over-long message of user 42 has been answered with the length error
\* and has taken the last unit of the user's quota: the window is full
C22_Witness ==
    /\ last.pc = "done"
    /\ last.uid = 42
    /\ last.sent = <<TooLongReply(MAX_TEXT_LENGTH + 1)>>
    /\ last.calls = 0
    /\ Len(rateLog) = RATE_LIMIT_MSGS
    /\ \A i \in 1..RATE_LIMIT_MSGS : rateLog[i].uid = 42 /\ ~rateLog[i].limited
    /\ rateLog[RATE_LIMIT_MSGS].at = now
    /\ Len(user_timestamps[42]) = RATE_LIMIT_MSGS
    /\ WindowIsFull(42)

====
